---- MODULE Spec2Model ----
(***************************************************************************)
(* A model of the YaMDb review API (api_yamdb): the relational state the   *)
(* handlers of api/views.py read and write, the validation of              *)
(* api/serializers.py and the constraints of reviews/models.py.            *)
(*                                                                         *)
(* Every request is one action.  The POST of a review is also given in two *)
(* halves (validation, then save), so that two POSTs can interleave as     *)
(* they do in two worker processes.  resp holds the answer to the last     *)
(* request together with the facts about the state it was handled in.      *)
(***************************************************************************)
EXTENDS Integers, FiniteSets, Sequences, Bags, TLC

VARIABLES users, userSeq, sent, used,
          categories, titles, titleSeq,
          reviews, reviewSeq, comments, commentSeq,
          pending, resp

vars == <<users, userSeq, sent, used, categories, titles, titleSeq,
          reviews, reviewSeq, comments, commentSeq, pending, resp>>

authVars    == <<users, userSeq, sent, used>>
contentVars == <<categories, titles, titleSeq, reviews, reviewSeq,
                 comments, commentSeq, pending>>

----------------------------------------------------------------------------
(* Bounds of the model.                                                    *)

\* Users ever created, rows ever inserted into the title, review and comment
\* tables together, and review POSTs in flight at once.
MaxUsers == 2
MaxRows == 3
MaxPending == 2

----------------------------------------------------------------------------
(* Values.                                                                 *)

\* request.user of a request without credentials (AnonymousUser, no pk).
Anonymous == 0

\* A field a request body does not carry.
Absent == "absent"

\* SQL NULL of a nullable text or foreign-key column.
Null == "null"

\* An optional integer: <<>> is None, <<n>> is n.
None == <<>>
Some(n) == <<n>>

ADMIN == "admin"
MODERATOR == "moderator"
USER == "user"
USER_ROLES == {USER, MODERATOR, ADMIN}

\* str.lower() on the usernames the model submits.
Lower(s) == CASE s = "Me" -> "me"
              [] s = "ME" -> "me"
              [] OTHER -> s

UsernameInputs == {"me", "Me", "alice"}
EmailInputs == {"a@x", "b@x"}

\* Bodies of POST /users/: username, email and role, or a required field
\* missing; "owner" is no role.
CreateBodies == [username : UsernameInputs, email : {"a@x", "b@x", Absent},
                 role : {Absent, MODERATOR, "owner"}]

\* Bodies of PATCH /users/{username}/: one field each, or none.
PatchBodies ==
    {b \in [username : UsernameInputs \cup {Absent},
            email : EmailInputs \cup {Absent},
            role : {Absent, USER, ADMIN, "owner"}] :
        Cardinality({f \in {"username", "email", "role"} : b[f] # Absent}) <= 1}

\* Bodies of PATCH /users/me/: any mix of fields, role among them.
MeBodies == [username : {Absent, "me", "alice"}, email : {Absent, "b@x"},
             role : {Absent, MODERATOR, ADMIN}]

is_authenticated(u) == u # Anonymous /\ u \in DOMAIN users
is_admin(u) == is_authenticated(u) /\ users[u].role = ADMIN
is_moderator(u) == is_authenticated(u) /\ users[u].role = MODERATOR

\* A function with one more (or one replaced) entry, and with entries removed.
Put(f, k, v) == [x \in DOMAIN f \cup {k} |-> IF x = k THEN v ELSE f[x]]
Drop(f, ks) == [x \in DOMAIN f \ ks |-> f[x]]

----------------------------------------------------------------------------
(* Users: validators and serializers.                                      *)

\* reviews/validators.py: the model validator of User.username.
validate_username(value) == value # "me"

\* UserCreateSerializer.validate_username.
UserCreateSerializer_validate_username(value) == Lower(value) # "me"

\* UniqueValidator(queryset=User.objects.all()) on a field; on update the
\* instance itself is excluded from the queryset.
UniqueUser(field, value, instance) ==
    \A id \in DOMAIN users \ {instance} : users[id][field] # value

\* get_object_or_404(User, username=...): the ids with that username.
UserByUsername(un) == {id \in DOMAIN users : users[id].username = un}

\* UserCreateSerializer.is_valid: username and email declared with a
\* UniqueValidator each, plus validate_username.
UserCreateSerializer_is_valid(un, em) ==
    /\ UniqueUser("username", un, Anonymous)
    /\ UserCreateSerializer_validate_username(un)
    /\ UniqueUser("email", em, Anonymous)

\* UserSerializer.is_valid: username and email are declared on the serializer
\* with a UniqueValidator only (a declared field does not inherit the model
\* field's validators); role is the model's choice field.
UserSerializer_is_valid(body, instance, partial) ==
    /\ IF body.username = Absent THEN partial
       ELSE UniqueUser("username", body.username, instance)
    /\ IF body.email = Absent THEN partial
       ELSE UniqueUser("email", body.email, instance)
    /\ body.role # Absent => body.role \in USER_ROLES

\* MeSerializer.Meta without read_only_fields.
MeSerializer_no_read_only_fields == {}

\* MeSerializer.Meta.read_only_fields.
MeSerializer_read_only_fields == {"role"}

\* MeSerializer.is_valid(partial=True): every field is built from the model,
\* so username carries validate_username and uniqueness, email uniqueness;
\* a read-only field of the body is dropped without being validated.
MeSerializer_is_valid(body, instance) ==
    /\ ("username" \notin MeSerializer_read_only_fields /\ body.username # Absent)
          => /\ validate_username(body.username)
             /\ UniqueUser("username", body.username, instance)
    /\ ("email" \notin MeSerializer_read_only_fields /\ body.email # Absent)
          => UniqueUser("email", body.email, instance)
    /\ ("role" \notin MeSerializer_read_only_fields /\ body.role # Absent)
          => body.role \in USER_ROLES

\* serializer.save() on an instance: the writable fields the body carries.
UpdatedUser(rec, body, readOnly) ==
    [f \in DOMAIN rec |->
        IF f \in DOMAIN body /\ f \notin readOnly /\ body[f] # Absent
        THEN body[f] ELSE rec[f]]

\* default_token_generator.make_token(user): a keyed hash of the user's pk,
\* password, last_login and email.  No handler writes password or last_login,
\* so the hash is a function of pk and email.
make_token(id, rec) == <<id, rec.email>>
check_token(id, rec, code) == code = make_token(id, rec)

BogusCode == <<Anonymous, "bogus">>

\* api/permissions.py OwnerOrAdmins (the users resource is for admins).
OwnerOrAdmins(u) == is_admin(u)

\* The status of a request the permission check refuses.
Refused(u) == IF is_authenticated(u) THEN 403 ELSE 401

----------------------------------------------------------------------------
(* Users: handlers.                                                        *)

\* POST /auth/signup/ (views.user_create).  mailOk: whether send_mail
\* returns or raises.
user_create(un, em, mailOk) ==
    /\ UNCHANGED <<used, contentVars>>
    /\ IF ~UserCreateSerializer_is_valid(un, em)
       THEN /\ resp' = [op |-> "signup", status |-> 400]
            /\ UNCHANGED <<users, userSeq, sent>>
       ELSE /\ userSeq < MaxUsers
            /\ userSeq' = userSeq + 1
            /\ users' = Put(users, userSeq + 1,
                            [username |-> un, email |-> em, role |-> USER])
            /\ IF mailOk
               THEN /\ sent' = sent \cup {make_token(userSeq + 1, users'[userSeq + 1])}
                    /\ resp' = [op |-> "signup", status |-> 200]
               ELSE /\ sent' = sent
                    /\ resp' = [op |-> "signup", status |-> 500]

\* POST /auth/token/ (views.get_token).
get_token(un, code) ==
    /\ UNCHANGED <<users, userSeq, sent, contentVars>>
    /\ IF UserByUsername(un) = {}
       THEN /\ resp' = [op |-> "token", status |-> 404, reused |-> FALSE]
            /\ used' = used
       ELSE LET id == CHOOSE i \in UserByUsername(un) : TRUE
            IN  IF check_token(id, users[id], code)
                THEN /\ resp' = [op |-> "token", status |-> 200,
                                 reused |-> <<un, code>> \in used]
                     /\ used' = used \cup {<<un, code>>}
                ELSE /\ resp' = [op |-> "token", status |-> 400,
                                 reused |-> <<un, code>> \in used]
                     /\ used' = used

\* POST /users/ (UserViewSet.create with UserSerializer).
UserViewSet_create(u, body) ==
    /\ UNCHANGED <<sent, used, contentVars>>
    /\ IF ~OwnerOrAdmins(u)
       THEN /\ resp' = [op |-> "user_create", status |-> Refused(u)]
            /\ UNCHANGED <<users, userSeq>>
       ELSE IF ~UserSerializer_is_valid(body, Anonymous, FALSE)
       THEN /\ resp' = [op |-> "user_create", status |-> 400]
            /\ UNCHANGED <<users, userSeq>>
       ELSE /\ userSeq < MaxUsers
            /\ userSeq' = userSeq + 1
            /\ users' = Put(users, userSeq + 1,
                            [username |-> body.username, email |-> body.email,
                             role |-> IF body.role = Absent THEN USER
                                      ELSE body.role])
            /\ resp' = [op |-> "user_create", status |-> 201]

\* PATCH /users/{username}/ (UserViewSet.partial_update with UserSerializer).
UserViewSet_partial_update(u, un, body) ==
    /\ UNCHANGED <<userSeq, sent, used, contentVars>>
    /\ IF ~OwnerOrAdmins(u)
       THEN /\ resp' = [op |-> "user_update", status |-> Refused(u)]
            /\ users' = users
       ELSE IF UserByUsername(un) = {}
       THEN /\ resp' = [op |-> "user_update", status |-> 404]
            /\ users' = users
       ELSE LET id == CHOOSE i \in UserByUsername(un) : TRUE
            IN  IF ~UserSerializer_is_valid(body, id, TRUE)
                THEN /\ resp' = [op |-> "user_update", status |-> 400]
                     /\ users' = users
                ELSE /\ users' = Put(users, id, UpdatedUser(users[id], body, {}))
                     /\ resp' = [op |-> "user_update", status |-> 200]

\* PATCH /users/me/ (UserViewSet.get_patch_me with MeSerializer).
get_patch_me(u, body) ==
    /\ UNCHANGED <<userSeq, sent, used, contentVars>>
    /\ IF ~is_authenticated(u)
       THEN /\ resp' = [op |-> "me_patch", status |-> 401, asksRole |-> FALSE]
            /\ users' = users
       ELSE LET asks == body.role # Absent /\ body.role # users[u].role
            IN  IF ~MeSerializer_is_valid(body, u)
                THEN /\ resp' = [op |-> "me_patch", status |-> 400,
                                 asksRole |-> asks]
                     /\ users' = users
                ELSE /\ users' = Put(users, u, UpdatedUser(users[u], body,
                                              MeSerializer_read_only_fields))
                     /\ resp' = [op |-> "me_patch", status |-> 200,
                                 asksRole |-> asks]

----------------------------------------------------------------------------
(* Content: permissions (api/permissions.py).                              *)

SAFE_METHODS == {"GET", "HEAD", "OPTIONS"}

\* IsAdminOrReadOnly: reads for everyone, writes for admins.
IsAdminOrReadOnly(u, method) == method \in SAFE_METHODS \/ is_admin(u)

\* ReviewAndCommentPermission.has_permission: reads for everyone, any other
\* method for authenticated users.
ReviewAndCommentPermission_has_permission(u, method) ==
    method \in SAFE_METHODS \/ is_authenticated(u)

\* ReviewAndCommentPermission.has_object_permission: reads for everyone, a
\* change for the author, a moderator or an admin.
ReviewAndCommentPermission_has_object_permission(u, method, obj) ==
    \/ method \in SAFE_METHODS
    \/ obj.author = u
    \/ is_moderator(u)
    \/ is_admin(u)

----------------------------------------------------------------------------
(* Content: models and serializers.                                        *)

\* ReviewSerializer.score = IntegerField(max_value=10, min_value=1).
ReviewSerializer_score_valid(score) == 1 <= score /\ score <= 10

\* CommentsSerializer.text: a CharField refuses the empty string.
CommentsSerializer_text_valid(text) == text # ""

ReviewsOf(t) == {r \in DOMAIN reviews : reviews[r].title = t}
CommentsOf(r) == {c \in DOMAIN comments : comments[c].review = r}

\* Review.objects.filter(title=title, author=author).exists()
ReviewExists(t, u) == \E r \in DOMAIN reviews :
                          reviews[r].title = t /\ reviews[r].author = u

\* ReviewSerializer.validate without the check for an existing review.
ReviewSerializer_validate_no_check(u, t, method) ==
    IF t \notin DOMAIN titles THEN 404 ELSE 0

\* ReviewSerializer.validate: 404 for a missing title, 400 for a second
\* review of the title by the author on POST, 0 when the data passes.
ReviewSerializer_validate(u, t, method) ==
    IF t \notin DOMAIN titles THEN 404
    ELSE IF method = "POST" /\ ReviewExists(t, u) THEN 400
    ELSE 0

\* Review.Meta without constraints.
Review_Meta_no_constraints(u, t) == TRUE

\* Review.Meta.constraints: UniqueConstraint(fields=['author', 'title']),
\* checked by the database on INSERT.
Review_Meta_unique_review(u, t) == ~ReviewExists(t, u)

\* Review.title with on_delete=DO_NOTHING.
Review_title_DO_NOTHING(ts) == {}

\* Review.title = ForeignKey(Title, on_delete=CASCADE): the reviews deleted
\* with the titles ts.
Review_title_CASCADE(ts) == {r \in DOMAIN reviews : reviews[r].title \in ts}

\* Review.author = ForeignKey(User, on_delete=CASCADE).
Review_author_CASCADE(us) == {r \in DOMAIN reviews : reviews[r].author \in us}

\* Comment.review and Comment.author = ForeignKey(..., on_delete=CASCADE).
Comment_review_CASCADE(rs) == {c \in DOMAIN comments : comments[c].review \in rs}
Comment_author_CASCADE(us) == {c \in DOMAIN comments : comments[c].author \in us}

\* Title.category = ForeignKey(Category, null=True, on_delete=SET_NULL).
Title_category_SET_NULL(slug) ==
    [t \in DOMAIN titles |->
        IF titles[t].category = slug
        THEN [titles[t] EXCEPT !.category = Null] ELSE titles[t]]

RECURSIVE SumScores(_)
SumScores(rs) == IF rs = {} THEN 0
                 ELSE LET r == CHOOSE x \in rs : TRUE
                      IN  reviews[r].score + SumScores(rs \ {r})

\* annotate(Avg('reviews__score')): None without reviews, else the quotient,
\* kept as <<sum, count>>.
Avg_reviews_score(t) ==
    IF ReviewsOf(t) = {} THEN None
    ELSE <<SumScores(ReviewsOf(t)), Cardinality(ReviewsOf(t))>>

\* IntegerField.to_representation: int(value), which truncates.
IntegerField_to_representation(avg) ==
    IF avg = None THEN None ELSE Some(avg[1] \div avg[2])

\* ListRetrieveTitleSerializer.rating without source=: the stored column.
ListRetrieveTitleSerializer_rating_stored(t) == titles[t].rating

\* ListRetrieveTitleSerializer.rating =
\*     IntegerField(source='reviews__score__avg', read_only=True)
ListRetrieveTitleSerializer_rating(t) ==
    IntegerField_to_representation(Avg_reviews_score(t))

Rows == titleSeq + reviewSeq + commentSeq

\* The facts about a review or comment request that the answer is judged by.
Facts(u, parent, found, valid, dup, priv) ==
    [auth |-> is_authenticated(u), parent |-> parent, found |-> found,
     valid |-> valid, dup |-> dup, priv |-> priv]

Answer(op, status, facts, changed) ==
    [op |-> op, status |-> status, changed |-> changed] @@ facts

IsStaff(u) == is_moderator(u) \/ is_admin(u)

----------------------------------------------------------------------------
(* Content: categories and titles.                                         *)

\* POST /categories/ (CategoryViewSet.create).
CategoryViewSet_create(u, slug) ==
    /\ UNCHANGED <<authVars, titles, titleSeq, reviews, reviewSeq,
                   comments, commentSeq, pending>>
    /\ IF ~IsAdminOrReadOnly(u, "POST")
       THEN /\ resp' = [op |-> "category_create", status |-> Refused(u)]
            /\ categories' = categories
       ELSE IF slug \in categories
       THEN /\ resp' = [op |-> "category_create", status |-> 400]
            /\ categories' = categories
       ELSE /\ categories' = categories \cup {slug}
            /\ resp' = [op |-> "category_create", status |-> 201]

\* DELETE /categories/{slug}/ (CategoryViewSet.destroy).
CategoryViewSet_destroy(u, slug) ==
    /\ UNCHANGED <<authVars, titleSeq, reviews, reviewSeq,
                   comments, commentSeq, pending>>
    /\ IF ~IsAdminOrReadOnly(u, "DELETE")
       THEN /\ resp' = [op |-> "category_destroy", status |-> Refused(u)]
            /\ UNCHANGED <<categories, titles>>
       ELSE IF slug \notin categories
       THEN /\ resp' = [op |-> "category_destroy", status |-> 404]
            /\ UNCHANGED <<categories, titles>>
       ELSE /\ categories' = categories \ {slug}
            /\ titles' = Title_category_SET_NULL(slug)
            /\ resp' = [op |-> "category_destroy", status |-> 204]

\* POST /titles/ (TitleViewSet.create with TitleSerializer): category is a
\* required slug of an existing category, rating the model's nullable column.
TitleViewSet_create(u, slug, rating) ==
    /\ UNCHANGED <<authVars, categories, reviews, reviewSeq,
                   comments, commentSeq, pending>>
    /\ IF ~IsAdminOrReadOnly(u, "POST")
       THEN /\ resp' = [op |-> "title_create", status |-> Refused(u)]
            /\ UNCHANGED <<titles, titleSeq>>
       ELSE IF slug \notin categories
       THEN /\ resp' = [op |-> "title_create", status |-> 400]
            /\ UNCHANGED <<titles, titleSeq>>
       ELSE /\ Rows < MaxRows
            /\ titleSeq' = titleSeq + 1
            /\ titles' = Put(titles, titleSeq + 1,
                             [category |-> slug, rating |-> rating])
            /\ resp' = [op |-> "title_create", status |-> 201]

\* PATCH /titles/{id}/ (TitleViewSet.partial_update) with a body of rating.
TitleViewSet_partial_update(u, t, rating) ==
    /\ UNCHANGED <<authVars, categories, titleSeq, reviews, reviewSeq,
                   comments, commentSeq, pending>>
    /\ IF ~IsAdminOrReadOnly(u, "PATCH")
       THEN /\ resp' = [op |-> "title_update", status |-> Refused(u)]
            /\ titles' = titles
       ELSE IF t \notin DOMAIN titles
       THEN /\ resp' = [op |-> "title_update", status |-> 404]
            /\ titles' = titles
       ELSE /\ titles' = [titles EXCEPT ![t].rating = rating]
            /\ resp' = [op |-> "title_update", status |-> 200]

\* DELETE /titles/{id}/ (TitleViewSet.destroy), with the database's cascade.
TitleViewSet_destroy(u, t) ==
    /\ UNCHANGED <<authVars, categories, titleSeq, reviewSeq, commentSeq, pending>>
    /\ IF ~IsAdminOrReadOnly(u, "DELETE")
       THEN /\ resp' = [op |-> "title_destroy", status |-> Refused(u), removed |-> 0]
            /\ UNCHANGED <<titles, reviews, comments>>
       ELSE IF t \notin DOMAIN titles
       THEN /\ resp' = [op |-> "title_destroy", status |-> 404, removed |-> 0]
            /\ UNCHANGED <<titles, reviews, comments>>
       ELSE LET rs == Review_title_CASCADE({t})
                cs == Comment_review_CASCADE(rs)
            IN  /\ titles' = Drop(titles, {t})
                /\ reviews' = Drop(reviews, rs)
                /\ comments' = Drop(comments, cs)
                /\ resp' = [op |-> "title_destroy", status |-> 204,
                            removed |-> Cardinality(rs) + Cardinality(cs)]

\* GET /titles/{id}/ (TitleViewSet.retrieve with ListRetrieveTitleSerializer).
TitleViewSet_retrieve(u, t) ==
    /\ UNCHANGED <<authVars, contentVars>>
    /\ IF ~IsAdminOrReadOnly(u, "GET")
       THEN resp' = [op |-> "title_retrieve", status |-> Refused(u), title |-> t,
                     rating |-> None]
       ELSE IF t \notin DOMAIN titles
       THEN resp' = [op |-> "title_retrieve", status |-> 404, title |-> t,
                     rating |-> None]
       ELSE resp' = [op |-> "title_retrieve", status |-> 200, title |-> t,
                     rating |-> ListRetrieveTitleSerializer_rating(t)]

\* DELETE /users/{username}/ (UserViewSet.destroy), with the cascade.
UserViewSet_destroy(u, un) ==
    /\ UNCHANGED <<userSeq, sent, used, categories, titles, titleSeq,
                   reviewSeq, commentSeq, pending>>
    /\ IF ~OwnerOrAdmins(u)
       THEN /\ resp' = [op |-> "user_destroy", status |-> Refused(u)]
            /\ UNCHANGED <<users, reviews, comments>>
       ELSE IF UserByUsername(un) = {}
       THEN /\ resp' = [op |-> "user_destroy", status |-> 404]
            /\ UNCHANGED <<users, reviews, comments>>
       ELSE LET us == UserByUsername(un)
                rs == Review_author_CASCADE(us)
                cs == Comment_review_CASCADE(rs) \cup Comment_author_CASCADE(us)
            IN  /\ users' = Drop(users, us)
                /\ reviews' = Drop(reviews, rs)
                /\ comments' = Drop(comments, cs)
                /\ resp' = [op |-> "user_destroy", status |-> 204]

----------------------------------------------------------------------------
(* Content: reviews.                                                       *)

\* ReviewViewSet.get_queryset with Review.objects.filter(title_id=...),
\* which raises nothing.
ReviewViewSet_get_queryset_filter(t) == FALSE

\* ReviewViewSet.get_queryset: get_object_or_404(Title, id=title_id) raises.
ReviewViewSet_get_queryset_raises(t) == t \notin DOMAIN titles

\* ReviewViewSet with permission_classes = [IsAuthenticatedOrReadOnly].
ReviewViewSet_IsAuthenticatedOrReadOnly(u, method, obj) ==
    method \in SAFE_METHODS \/ is_authenticated(u)

\* ReviewViewSet.permission_classes = [ReviewAndCommentPermission].
ReviewViewSet_check_permissions(u, method) ==
    ReviewAndCommentPermission_has_permission(u, method)
ReviewViewSet_check_object_permissions(u, method, obj) ==
    ReviewAndCommentPermission_has_object_permission(u, method, obj)

\* CommentViewSet.permission_classes = [ReviewAndCommentPermission].
CommentViewSet_check_permissions(u, method) ==
    ReviewAndCommentPermission_has_permission(u, method)
CommentViewSet_check_object_permissions(u, method, obj) ==
    ReviewAndCommentPermission_has_object_permission(u, method, obj)

\* GET /titles/{t}/reviews/ (ReviewViewSet.list).
ReviewViewSet_list(u, t) ==
    /\ UNCHANGED <<authVars, contentVars>>
    /\ LET facts == Facts(u, t \in DOMAIN titles, t \in DOMAIN titles,
                          TRUE, FALSE, IsStaff(u))
       IN  IF ~ReviewViewSet_check_permissions(u, "GET")
           THEN resp' = Answer("review_list", Refused(u), facts, FALSE)
           ELSE IF ReviewViewSet_get_queryset_raises(t)
           THEN resp' = Answer("review_list", 404, facts, FALSE)
           ELSE resp' = Answer("review_list", 200, facts, FALSE)

\* ReviewViewSet.create up to the end of serializer.is_valid: the permission
\* check, the fields, then ReviewSerializer.validate.  0 when the data passes.
ReviewViewSet_create_is_valid(u, t, score) ==
    IF ~ReviewViewSet_check_permissions(u, "POST") THEN Refused(u)
    ELSE IF ~ReviewSerializer_score_valid(score) THEN 400
    ELSE ReviewSerializer_validate(u, t, "POST")

\* ReviewViewSet.perform_create: the title looked up again, then the INSERT,
\* which the database refuses (IntegrityError, a 500) when the author is gone
\* or the pair (author, title) is taken.
ReviewViewSet_perform_create(u, t) ==
    IF t \notin DOMAIN titles THEN 404
    ELSE IF u \notin DOMAIN users \/ ~Review_Meta_unique_review(u, t) THEN 500
    ELSE 201

ReviewFacts(u, t, score) ==
    Facts(u, t \in DOMAIN titles, t \in DOMAIN titles,
          ReviewSerializer_score_valid(score), ReviewExists(t, u), IsStaff(u))

\* The INSERT of a review and the answer 201, or the answer alone.
ReviewInsert(op, status, u, t, score, facts) ==
    IF status = 201
    THEN /\ Rows < MaxRows
         /\ reviewSeq' = reviewSeq + 1
         /\ reviews' = Put(reviews, reviewSeq + 1,
                           [author |-> u, title |-> t, score |-> score])
         /\ resp' = Answer(op, 201, facts, TRUE)
    ELSE /\ UNCHANGED <<reviews, reviewSeq>>
         /\ resp' = Answer(op, status, facts, FALSE)

\* POST /titles/{t}/reviews/ (ReviewViewSet.create), handled alone.
ReviewViewSet_create(u, t, score) ==
    /\ UNCHANGED <<authVars, categories, titles, titleSeq,
                   comments, commentSeq, pending>>
    /\ LET st == ReviewViewSet_create_is_valid(u, t, score)
       IN  ReviewInsert("review_create",
                        IF st # 0 THEN st ELSE ReviewViewSet_perform_create(u, t),
                        u, t, score, ReviewFacts(u, t, score))

\* POST /titles/{t}/reviews/ in a worker, first half: up to is_valid.  A
\* request that passes is in flight.
ReviewViewSet_create_begin(u, t, score) ==
    /\ UNCHANGED <<authVars, categories, titles, titleSeq, reviews, reviewSeq,
                   comments, commentSeq>>
    /\ LET st == ReviewViewSet_create_is_valid(u, t, score)
           p == [author |-> u, title |-> t, score |-> score]
       IN  IF st # 0
           THEN /\ pending' = pending
                /\ resp' = Answer("review_begin", st, ReviewFacts(u, t, score), FALSE)
           ELSE /\ BagCardinality(pending) < MaxPending
                /\ pending' = pending (+) SetToBag({p})
                /\ resp' = Answer("review_begin", 0, ReviewFacts(u, t, score), FALSE)

\* Second half: perform_create of a request in flight.
ReviewViewSet_create_end(p) ==
    /\ BagIn(p, pending)
    /\ pending' = pending (-) SetToBag({p})
    /\ UNCHANGED <<authVars, categories, titles, titleSeq, comments, commentSeq>>
    /\ ReviewInsert("review_end", ReviewViewSet_perform_create(p.author, p.title),
                    p.author, p.title, p.score,
                    ReviewFacts(p.author, p.title, p.score))

\* The facts of a request on the review r of the title t.
ReviewObjectFacts(u, t, r, score) ==
    LET found == t \in DOMAIN titles /\ r \in ReviewsOf(t)
    IN  Facts(u, t \in DOMAIN titles, found,
              ReviewSerializer_score_valid(score), FALSE,
              IsStaff(u) \/ (found /\ is_authenticated(u) /\ reviews[r].author = u))

\* UpdateModelMixin / DestroyModelMixin up to the object: the permission
\* check, get_queryset, the lookup in it, the object permission.  0 when the
\* request may go on.
ReviewViewSet_get_object(u, t, r, method) ==
    IF ~ReviewViewSet_check_permissions(u, method) THEN Refused(u)
    ELSE IF ReviewViewSet_get_queryset_raises(t) THEN 404
    ELSE IF r \notin ReviewsOf(t) THEN 404
    ELSE IF ~ReviewViewSet_check_object_permissions(u, method, reviews[r]) THEN 403
    ELSE 0

\* PATCH /titles/{t}/reviews/{r}/ (ReviewViewSet.partial_update) of score.
ReviewViewSet_partial_update(u, t, r, score) ==
    /\ UNCHANGED <<authVars, categories, titles, titleSeq, reviewSeq,
                   comments, commentSeq, pending>>
    /\ LET facts == ReviewObjectFacts(u, t, r, score)
           st0 == ReviewViewSet_get_object(u, t, r, "PATCH")
           st == IF st0 # 0 THEN st0
                 ELSE IF ~ReviewSerializer_score_valid(score) THEN 400
                 ELSE ReviewSerializer_validate(u, t, "PATCH")
       IN  IF st # 0
           THEN /\ reviews' = reviews
                /\ resp' = Answer("review_update", st, facts, FALSE)
           ELSE /\ reviews' = [reviews EXCEPT ![r].score = score]
                /\ resp' = Answer("review_update", 200, facts, reviews' # reviews)

\* DELETE /titles/{t}/reviews/{r}/ (ReviewViewSet.destroy), with the cascade.
ReviewViewSet_destroy(u, t, r) ==
    /\ UNCHANGED <<authVars, categories, titles, titleSeq, reviewSeq,
                   commentSeq, pending>>
    /\ LET facts == ReviewObjectFacts(u, t, r, 1)
           st == ReviewViewSet_get_object(u, t, r, "DELETE")
       IN  IF st # 0
           THEN /\ UNCHANGED <<reviews, comments>>
                /\ resp' = Answer("review_destroy", st, facts, FALSE)
           ELSE /\ reviews' = Drop(reviews, {r})
                /\ comments' = Drop(comments, Comment_review_CASCADE({r}))
                /\ resp' = Answer("review_destroy", 204, facts, TRUE)

----------------------------------------------------------------------------
(* Content: comments.  CommentViewSet reads review_id of the path alone.   *)

\* CommentViewSet.get_queryset: get_object_or_404(Review, id=review_id) raises.
CommentViewSet_get_queryset_raises(r) == r \notin DOMAIN reviews

CommentFacts(u, r, text) ==
    Facts(u, r \in DOMAIN reviews, r \in DOMAIN reviews,
          CommentsSerializer_text_valid(text), FALSE, IsStaff(u))

CommentObjectFacts(u, r, c, text) ==
    LET found == r \in DOMAIN reviews /\ c \in CommentsOf(r)
    IN  Facts(u, r \in DOMAIN reviews, found,
              CommentsSerializer_text_valid(text), FALSE,
              IsStaff(u) \/ (found /\ is_authenticated(u) /\ comments[c].author = u))

\* GET /titles/{t}/reviews/{r}/comments/ (CommentViewSet.list).
CommentViewSet_list(u, r) ==
    /\ UNCHANGED <<authVars, contentVars>>
    /\ IF ~CommentViewSet_check_permissions(u, "GET")
       THEN resp' = Answer("comment_list", Refused(u), CommentFacts(u, r, "-"), FALSE)
       ELSE IF CommentViewSet_get_queryset_raises(r)
       THEN resp' = Answer("comment_list", 404, CommentFacts(u, r, "-"), FALSE)
       ELSE resp' = Answer("comment_list", 200, CommentFacts(u, r, "-"), FALSE)

\* POST /titles/{t}/reviews/{r}/comments/ (CommentViewSet.create): the
\* permission check, the fields, then perform_create.
CommentViewSet_create(u, r, text) ==
    /\ UNCHANGED <<authVars, categories, titles, titleSeq, reviews, reviewSeq,
                   pending>>
    /\ LET facts == CommentFacts(u, r, text)
           st == IF ~CommentViewSet_check_permissions(u, "POST") THEN Refused(u)
                 ELSE IF ~CommentsSerializer_text_valid(text) THEN 400
                 ELSE IF r \notin DOMAIN reviews THEN 404
                 ELSE 201
       IN  IF st # 201
           THEN /\ UNCHANGED <<comments, commentSeq>>
                /\ resp' = Answer("comment_create", st, facts, FALSE)
           ELSE /\ Rows < MaxRows
                /\ commentSeq' = commentSeq + 1
                /\ comments' = Put(comments, commentSeq + 1,
                                   [author |-> u, review |-> r, text |-> text])
                /\ resp' = Answer("comment_create", 201, facts, TRUE)

CommentViewSet_get_object(u, r, c, method) ==
    IF ~CommentViewSet_check_permissions(u, method) THEN Refused(u)
    ELSE IF CommentViewSet_get_queryset_raises(r) THEN 404
    ELSE IF c \notin CommentsOf(r) THEN 404
    ELSE IF ~CommentViewSet_check_object_permissions(u, method, comments[c]) THEN 403
    ELSE 0

\* PATCH /titles/{t}/reviews/{r}/comments/{c}/ (CommentViewSet.partial_update).
CommentViewSet_partial_update(u, r, c, text) ==
    /\ UNCHANGED <<authVars, categories, titles, titleSeq, reviews, reviewSeq,
                   commentSeq, pending>>
    /\ LET facts == CommentObjectFacts(u, r, c, text)
           st0 == CommentViewSet_get_object(u, r, c, "PATCH")
           st == IF st0 # 0 THEN st0
                 ELSE IF ~CommentsSerializer_text_valid(text) THEN 400
                 ELSE 0
       IN  IF st # 0
           THEN /\ comments' = comments
                /\ resp' = Answer("comment_update", st, facts, FALSE)
           ELSE /\ comments' = [comments EXCEPT ![c].text = text]
                /\ resp' = Answer("comment_update", 200, facts, comments' # comments)

\* DELETE /titles/{t}/reviews/{r}/comments/{c}/ (CommentViewSet.destroy).
CommentViewSet_destroy(u, r, c) ==
    /\ UNCHANGED <<authVars, categories, titles, titleSeq, reviews, reviewSeq,
                   commentSeq, pending>>
    /\ LET facts == CommentObjectFacts(u, r, c, "-")
           st == CommentViewSet_get_object(u, r, c, "DELETE")
       IN  IF st # 0
           THEN /\ comments' = comments
                /\ resp' = Answer("comment_destroy", st, facts, FALSE)
           ELSE /\ comments' = Drop(comments, {c})
                /\ resp' = Answer("comment_destroy", 204, facts, TRUE)

----------------------------------------------------------------------------
(* The accounts specification: signup, token exchange, user management.    *)

NoResp == [op |-> "none", status |-> 0]

InitAccounts ==
    /\ users = (1 :> [username |-> "admin", email |-> "root@x", role |-> ADMIN])
    /\ userSeq = 1
    /\ sent = {}
    /\ used = {}
    /\ categories = {}
    /\ titles = <<>>
    /\ titleSeq = 0
    /\ reviews = <<>>
    /\ reviewSeq = 0
    /\ comments = <<>>
    /\ commentSeq = 0
    /\ pending = EmptyBag
    /\ resp = NoResp

Requesters == DOMAIN users \cup {Anonymous}

Signup == \E un \in UsernameInputs, em \in EmailInputs, mailOk \in BOOLEAN :
              user_create(un, em, mailOk)
GetToken == \E un \in UsernameInputs \cup {"admin"}, code \in sent \cup {BogusCode} :
              get_token(un, code)
UserCreate == \E u \in Requesters, body \in CreateBodies : UserViewSet_create(u, body)
UserUpdate == \E u \in Requesters, un \in UsernameInputs \cup {"admin"},
                 body \in PatchBodies : UserViewSet_partial_update(u, un, body)
MePatch == \E u \in Requesters, body \in MeBodies : get_patch_me(u, body)

NextAccounts == Signup \/ GetToken \/ UserCreate \/ UserUpdate \/ MePatch

SpecAccounts == InitAccounts /\ [][NextAccounts]_vars

\* User management and the self-service profile alone.
NextProfile == UserCreate \/ UserUpdate \/ MePatch

SpecProfile == InitAccounts /\ [][NextProfile]_vars

----------------------------------------------------------------------------
(* The content specifications.  The users are there from the start; the    *)
(* category "films" exists.                                                *)

Population ==
         (1 :> [username |-> "admin", email |-> "root@x", role |-> ADMIN])
      @@ (2 :> [username |-> "mod", email |-> "mod@x", role |-> MODERATOR])
      @@ (3 :> [username |-> "alice", email |-> "a@x", role |-> USER])
      @@ (4 :> [username |-> "bob", email |-> "b@x", role |-> USER])

InitContent(ids) ==
    /\ users = [id \in ids |-> Population[id]]
    /\ userSeq = 4
    /\ sent = {}
    /\ used = {}
    /\ categories = {"films"}
    /\ titles = <<>>
    /\ titleSeq = 0
    /\ reviews = <<>>
    /\ reviewSeq = 0
    /\ comments = <<>>
    /\ commentSeq = 0
    /\ pending = EmptyBag
    /\ resp = NoResp

\* The ids a path can name: every id ever given, and one never given.
TitlePaths == 1 .. (titleSeq + 1)
ReviewPaths == 1 .. (reviewSeq + 1)
CommentPaths == 1 .. (commentSeq + 1)

CategorySlugs == {"films"}

CategoryCreate == \E u \in Requesters, slug \in CategorySlugs :
                      CategoryViewSet_create(u, slug)
CategoryDestroy == \E u \in Requesters, slug \in CategorySlugs :
                      CategoryViewSet_destroy(u, slug)
TitleCreate(ratings) == \E u \in Requesters, slug \in CategorySlugs, rating \in ratings :
                      TitleViewSet_create(u, slug, rating)
TitleUpdate(ratings) == \E u \in Requesters, t \in TitlePaths, rating \in ratings :
                      TitleViewSet_partial_update(u, t, rating)
TitleDestroy == \E u \in Requesters, t \in TitlePaths : TitleViewSet_destroy(u, t)
TitleRetrieve == \E u \in Requesters, t \in TitlePaths : TitleViewSet_retrieve(u, t)
UserDestroy == \E u \in Requesters, un \in {"alice", "bob", "nobody"} :
                      UserViewSet_destroy(u, un)

ReviewList == \E u \in Requesters, t \in TitlePaths : ReviewViewSet_list(u, t)
ReviewCreate(scores) == \E u \in Requesters, t \in TitlePaths, score \in scores :
                      ReviewViewSet_create(u, t, score)
ReviewBegin(scores) == \E u \in Requesters, t \in TitlePaths, score \in scores :
                      ReviewViewSet_create_begin(u, t, score)
ReviewEnd == \E p \in BagToSet(pending) : ReviewViewSet_create_end(p)
ReviewUpdate(scores) == \E u \in Requesters, t \in TitlePaths, r \in ReviewPaths,
                         score \in scores :
                      ReviewViewSet_partial_update(u, t, r, score)
ReviewDestroy == \E u \in Requesters, t \in TitlePaths, r \in ReviewPaths :
                      ReviewViewSet_destroy(u, t, r)

CommentList == \E u \in Requesters, r \in ReviewPaths : CommentViewSet_list(u, r)
CommentCreate(texts) == \E u \in Requesters, r \in ReviewPaths, text \in texts :
                      CommentViewSet_create(u, r, text)
CommentUpdate(texts) == \E u \in Requesters, r \in ReviewPaths, c \in CommentPaths,
                         text \in texts :
                      CommentViewSet_partial_update(u, r, c, text)
CommentDestroy == \E u \in Requesters, r \in ReviewPaths, c \in CommentPaths :
                      CommentViewSet_destroy(u, r, c)

\* Reviews and ratings, one request at a time: an admin and a user.
NextReviews ==
    \/ TitleCreate({None, Some(5)})
    \/ TitleUpdate({None, Some(5)})
    \/ TitleRetrieve
    \/ ReviewCreate({8, 9, 10, 11})
    \/ ReviewUpdate({9, 11})
    \/ ReviewDestroy

SpecReviews == InitContent({1, 3}) /\ [][NextReviews]_vars

\* Review POSTs handled by several workers at once: an admin and a user.
NextRace ==
    \/ TitleCreate({None})
    \/ TitleDestroy
    \/ ReviewBegin({8, 11})
    \/ ReviewEnd
    \/ ReviewDestroy

SpecRace == InitContent({1, 3}) /\ [][NextRace]_vars

\* Update and delete of a stored review and a stored comment on it, by each
\* kind of requester: the review and the comment are by any two users.
InitModeration ==
    /\ \E a \in DOMAIN Population, b \in DOMAIN Population :
          /\ reviews = (1 :> [author |-> a, title |-> 1, score |-> 8])
          /\ comments = (1 :> [author |-> b, review |-> 1, text |-> "first"])
    /\ users = Population
    /\ userSeq = 4
    /\ sent = {}
    /\ used = {}
    /\ categories = {"films"}
    /\ titles = (1 :> [category |-> "films", rating |-> None])
    /\ titleSeq = 1
    /\ reviewSeq = 1
    /\ commentSeq = 1
    /\ pending = EmptyBag
    /\ resp = NoResp

NextModeration ==
    \/ ReviewUpdate({8, 9, 11})
    \/ ReviewDestroy
    \/ CommentUpdate({"first", "edited", ""})
    \/ CommentDestroy

SpecModeration == InitModeration /\ [][NextModeration]_vars

\* Every table created into and deleted from, and every method of the
\* nested routes: an admin and a user.
NextCascade ==
    \/ CategoryCreate
    \/ CategoryDestroy
    \/ TitleCreate({None})
    \/ TitleDestroy
    \/ UserDestroy
    \/ ReviewList
    \/ ReviewCreate({8, 11})
    \/ ReviewUpdate({8, 11})
    \/ ReviewDestroy
    \/ CommentList
    \/ CommentCreate({"first", ""})
    \/ CommentUpdate({"first", ""})
    \/ CommentDestroy

SpecCascade == InitContent({1, 3}) /\ [][NextCascade]_vars

----------------------------------------------------------------------------
(* Claims about accounts.                                                  *)

\* C2: a confirmation code is single-use: no token exchange succeeds with a
\* username and code that an earlier exchange already succeeded with.
CodeIsSingleUse ==
    ~(resp.op = "token" /\ resp.status = 200 /\ resp.reused)

\* C6: a PATCH to /users/me/ leaves every stored role as it was, whatever
\* the body carries.
MePatchKeepsRoles ==
    [][resp'.op = "me_patch" =>
          /\ DOMAIN users' = DOMAIN users
          /\ \A id \in DOMAIN users : users'[id].role = users[id].role]_vars

\* C6 witness: a self-service PATCH whose body asks for another role than
\* the caller has was accepted (200).
MePatchAskedRole ==
    resp.op = "me_patch" /\ resp.status = 200 /\ resp.asksRole

\* C7: no stored user has the username "me".
NoUserNamedMe ==
    \A id \in DOMAIN users : users[id].username # "me"

\* C10: signup is all-or-nothing: a signup request that fails leaves the
\* stored users as they were.
SignupAllOrNothing ==
    [][(resp'.op = "signup" /\ resp'.status # 200) => users' = users]_vars

----------------------------------------------------------------------------
(* Claims about reviews, ratings, permissions and cascades.                *)

ScoreSum(t) == SumScores(ReviewsOf(t))
ScoreCount(t) == Cardinality(ReviewsOf(t))

\* C1: the stored reviews hold at most one review per (author, title), and a
\* POST of a review by an author who has a review on the title is answered
\* 400 and stores nothing.
OneReviewPerAuthorAndTitle ==
    /\ \A r1, r2 \in DOMAIN reviews :
          (reviews[r1].author = reviews[r2].author
             /\ reviews[r1].title = reviews[r2].title) => r1 = r2
    /\ (resp.op = "review_create" /\ resp.auth /\ resp.dup)
          => (resp.status = 400 /\ ~resp.changed)

\* C1 witness: a POST with a valid body by an author who has a review on the
\* title was answered 400.
SecondReviewRefused ==
    resp.op = "review_create" /\ resp.dup /\ resp.valid /\ resp.status = 400

\* C3: of the review POSTs of one author on one title that passed validation
\* together, the database stores at most one: the INSERT of the other is
\* refused and no state holds two reviews of the pair.
RaceStoresOneReview ==
    /\ \A u \in DOMAIN Population, t \in DOMAIN titles :
          Cardinality({r \in ReviewsOf(t) : reviews[r].author = u}) <= 1
    /\ (resp.op = "review_end" /\ resp.dup)
          => (resp.status = 500 /\ ~resp.changed)

\* C3 witness: a POST that had passed validation found the pair taken at its
\* INSERT, while another POST of the pair is still in flight or has saved.
RaceLost ==
    resp.op = "review_end" /\ resp.dup /\ resp.valid /\ resp.status = 500

\* C4 as stated: the rating a retrieve of a title reports is the arithmetic
\* mean of the scores of its reviews, and null without reviews.
RatingIsMean ==
    (resp.op = "title_retrieve" /\ resp.status = 200) =>
        IF ScoreCount(resp.title) = 0 THEN resp.rating = None
        ELSE /\ resp.rating # None
             /\ resp.rating[1] * ScoreCount(resp.title) = ScoreSum(resp.title)

\* C4 as amended: the rating a retrieve of a title reports is the arithmetic
\* mean of the scores of its reviews truncated to an integer, and null
\* without reviews, whatever the title's stored rating column holds.
RatingIsTruncatedMean ==
    (resp.op = "title_retrieve" /\ resp.status = 200) =>
        IF ScoreCount(resp.title) = 0 THEN resp.rating = None
        ELSE /\ resp.rating # None
             /\ resp.rating[1] * ScoreCount(resp.title) <= ScoreSum(resp.title)
             /\ ScoreSum(resp.title) < (resp.rating[1] + 1) * ScoreCount(resp.title)

\* C4 witness: a title whose scores have no integer mean, and whose stored
\* rating column differs from the rating reported, was retrieved.
RatingTruncated ==
    /\ resp.op = "title_retrieve" /\ resp.status = 200
    /\ ScoreCount(resp.title) > 1
    /\ ScoreSum(resp.title) % ScoreCount(resp.title) # 0
    /\ titles[resp.title].rating # resp.rating

ChangeOps == {"review_update", "review_destroy", "comment_update", "comment_destroy"}

\* C5: an update or delete of a review or comment changes stored state only
\* for its author, a moderator or an admin; any other authenticated user is
\* answered 403 and an unauthenticated requester 401, nothing changed.
OnlyAuthorOrStaffChanges ==
    resp.op \in ChangeOps =>
        /\ resp.changed => (resp.auth /\ resp.priv)
        /\ (resp.auth /\ resp.found /\ ~resp.priv) => resp.status = 403
        /\ ~resp.auth => resp.status = 401

\* C5 witness: an authenticated user who is neither the author nor staff
\* asked to change a stored review and was answered 403.
StrangerRefused ==
    /\ resp.op = "review_update" /\ resp.auth /\ resp.found /\ resp.valid
    /\ ~resp.priv /\ resp.status = 403

NestedOps == {"review_list", "review_create", "review_update", "review_destroy",
              "comment_list", "comment_create", "comment_update", "comment_destroy"}
NestedReads == {"review_list", "comment_list"}
NestedCreates == {"review_create", "comment_create"}

\* C8 as stated: a review or comment request whose path names a missing
\* parent is answered 404, whatever the method, the requester and the body.
MissingParentIs404 ==
    (resp.op \in NestedOps /\ ~resp.parent) => resp.status = 404

\* C8 as amended: a review or comment request whose path names a missing
\* parent is answered 404, except that the permission check and the field
\* validation of a POST come first: an unauthenticated write is answered 401
\* and an authenticated POST with an invalid body 400.
MissingParentAfterChecks ==
    (resp.op \in NestedOps /\ ~resp.parent) =>
        resp.status = IF resp.op \notin NestedReads /\ ~resp.auth THEN 401
                      ELSE IF resp.op \in NestedCreates /\ ~resp.valid THEN 400
                      ELSE 404

\* C8 witness: an authenticated POST of a review with an invalid body to a
\* missing title was answered 400.
InvalidBodyBeforeMissingParent ==
    /\ resp.op = "review_create" /\ ~resp.parent /\ resp.auth /\ ~resp.valid
    /\ resp.status = 400

ReferencesExist ==
    /\ \A r \in DOMAIN reviews : /\ reviews[r].title \in DOMAIN titles
                                 /\ reviews[r].author \in DOMAIN users
    /\ \A c \in DOMAIN comments : /\ comments[c].review \in DOMAIN reviews
                                  /\ comments[c].author \in DOMAIN users
    /\ \A t \in DOMAIN titles : titles[t].category \in categories \cup {Null}

TitleDestroyStep ==
    (resp'.op = "title_destroy" /\ resp'.status = 204) =>
        /\ categories' = categories
        /\ \A r \in DOMAIN reviews :
              reviews[r].title \notin DOMAIN titles' => r \notin DOMAIN reviews'
        /\ \A c \in DOMAIN comments :
              comments[c].review \notin DOMAIN reviews' => c \notin DOMAIN comments'

CategoryDestroyStep ==
    (resp'.op = "category_destroy" /\ resp'.status = 204) =>
        /\ DOMAIN titles' = DOMAIN titles
        /\ \A t \in DOMAIN titles :
              titles'[t].category = IF titles[t].category \in categories'
                                    THEN titles[t].category ELSE Null

\* C9: every stored review refers to a stored title and author and every
\* stored comment to a stored review; deleting a title deletes its reviews
\* and their comments and leaves the categories alone, deleting a category
\* keeps its titles and sets their category to null.
CascadesKeepReferences ==
    []ReferencesExist /\ [][TitleDestroyStep /\ CategoryDestroyStep]_vars

\* C9 witness: a title with a review and a comment on it was deleted while
\* its category is stored.
TitleDeletedWithReviews ==
    /\ resp.op = "title_destroy" /\ resp.status = 204 /\ resp.removed >= 2
    /\ categories # {}

====
